---- MODULE Spec2Model ----
(***************************************************************************)
(* Model of the fan control daemon of proxmox-fan-monitor:                 *)
(*   - AutoStateManager (fancontrol/state_manager.py, fan_control.py),     *)
(*   - profiles_to_legacy_format (fancontrol/config.py),                   *)
(*   - SystemFanController and GPUFanController                            *)
(*     (fancontrol/controllers.py, fan_control.py),                        *)
(*   - the tick loop of fan_control.py main().                             *)
(* Times are whole seconds, temperatures whole degrees, RPM whole numbers. *)
(***************************************************************************)
EXTENDS Integers, Sequences, FiniteSets, TLC

VARIABLES
    \* --- one AutoStateManager and the configuration it was built from
    config,         \* the configuration dictionary the engine was built from
    logic,          \* the AutoStateManager object's fields
    now,            \* time.time() as seen by the latest call
    sensor_values,  \* the mapping passed to the latest update()
    instant_mode,   \* instant_mode computed by the latest update(), "None" before
    run_start,      \* time of the first of the latest consecutive updates that
                    \* computed the same instant_mode
    raised,         \* the exception the latest call ended with, "None" if it returned
    ret,            \* the value the latest call returned
    logic_before,   \* the AutoStateManager object's fields as the latest
                    \* update() found them (kept by the specifications that
                    \* follow one object through its calls)
    steady_since,   \* time of the first of the latest consecutive update()
                    \* calls that were passed the same mapping (kept likewise)
    \* --- one SystemFanController and the sysfs channel it drives
    fan,            \* the SystemFanController object's fields
    pwm_file,       \* the value held by the sysfs pwm file
    wrote,          \* what the latest update() did to the pwm file:
                    \* "none" (no write), "ok", "failed"
    plant,          \* RPM per unit of drive value of the simulated fan, 0 when
                    \* the measured RPM is not simulated
    fan_ticks,      \* update() calls made so far on the simulated fan
    fan_input,      \* what the latest get_rpm() found in the fan input file:
                    \* <<n>>, or <<>> when it could not be read
    \* --- one GPUFanController and the driver commands it issues
    gpu,            \* the GPUFanController object's fields
    cmds,           \* the nvidia-settings commands run by the latest call
    gpu_call,       \* the latest call: "init", "reset", "set_speed_pct",
                    \* "set_target_rpm" or "update"
    gpu_arg,        \* the argument of the latest call (0 when it takes none)
    gpu_exc,        \* the exception the latest call let escape, or "None"
    \* --- the tick loop of fan_control.py main() and the HTTP handler thread
    tick,             \* passes of the loop body made so far
    it8613,           \* main()'s local it8613: whether get_it8613_path()
                      \* found the fan controller chip
    pc,               \* where main() is: "start", then in its loop "logic",
                      \* "apply", "publish", "log", "sleep"; "crashed" once an
                      \* exception left main(), "exited" once main() returned,
                      \* "killed" once the process was terminated
    main_exc,         \* the exception that left main(), "None" if none did
    runtime_override, \* the module's runtime_override dictionary
    sys_logic,        \* AutoStateManager(SYS_CONFIG)
    gpu_logic,        \* AutoStateManager(GPU_CONFIG)
    sys_fans,         \* the two SystemFanController objects
    gpu_ctl,          \* the GPUFanController object of fan_control.py
    modes,            \* the loop's locals sys_mode and gpu_mode
    targets,          \* the loop's locals sys_target and gpu_target_pct
    current_state,    \* current_state['data'] without its 'override' entry as
                      \* <<data>>, <<>> while it is None; the 'override' entry
                      \* is a reference to runtime_override
    status_reply,     \* the last response of handle_status
    published,        \* history: <<api_data>> as it was, 'override' included,
                      \* when the last tick published it
    last_log_time,    \* the loop's local last_log_time
    api_pc,           \* <<type, mode, before>> of the request handle_override
                      \* is in the middle of, before being the group's override
                      \* when the request began; <<>> when it is in none
    api_calls         \* requests handled so far

engineVars == <<config, logic, now, sensor_values, instant_mode, run_start, raised, ret,
                logic_before, steady_since>>
fanVars == <<fan, pwm_file, wrote, plant, fan_ticks, fan_input>>
gpuVars == <<gpu, cmds, gpu_call, gpu_arg, gpu_exc>>
mainVars == <<it8613, pc, main_exc, runtime_override, sys_logic, gpu_logic, sys_fans,
              gpu_ctl, modes, targets, current_state, last_log_time, api_pc,
              api_calls, status_reply, published>>
loopVars == <<tick, mainVars>>
vars == <<engineVars, fanVars, gpuVars, loopVars>>

-----------------------------------------------------------------------------
(* Bounds of the model *)

\* the clock value at the first tick
StartTime == 50
\* ticks are modelled while the clock is below StartTime + Horizon
Horizon == 7
\* the largest number of seconds between two consecutive ticks
MaxDt == 2
\* update() is modelled while current_pwm is at most PwmSlack outside [0, 255]
PwmSlack == 8
\* the number of ticks of the scripted scenario
ScenarioLen == 48
\* the number of passes of the main loop that are modelled
MaxTicks == 2
\* the number of override requests that are modelled
MaxApiCalls == 2

-----------------------------------------------------------------------------
(* Python values *)

\* None where a number is expected (a sensor's 'value', a threshold's limit)
NoValue == -1000

\* str(i) and int(s) on the mode keys (ToInt is int())
Digits == <<"0", "1", "2", "3", "4", "5", "6", "7", "8", "9">>
Str(i) == Digits[i + 1]
IsDigit(s) == \E i \in 1..Len(Digits) : Digits[i] = s
ToInt(s) == (CHOOSE i \in 1..Len(Digits) : Digits[i] = s) - 1

\* d.get(k, default)
Get(d, k, default) == IF k \in DOMAIN d THEN d[k] ELSE default

-----------------------------------------------------------------------------
(* fancontrol/config.py *)

\* the active thresholds of a profile: those naming one of the group's
\* temp_sources with a limit that is not None, in the dictionary's order
ActiveThresh(thresh, temp_sources) ==
    SelectSeq(thresh, LAMBDA p : p[1] \in temp_sources /\ p[2] # NoValue)

ProfilesToLegacyFormat(g) ==
    LET n == Len(g.profiles)
        keys == {Str(i - 1) : i \in 1..n}
        upper == {Str(i - 1) : i \in 2..n}
    IN  [TARGETS    |-> [k \in keys |-> g.profiles[ToInt(k) + 1].target],
         THRESHOLDS |-> [k \in upper |->
                            ActiveThresh(g.profiles[ToInt(k) + 1].thresholds,
                                         g.temp_sources)],
         DELAY_UP   |-> g.delay_up,
         HOLD_TIME  |-> [k \in keys |-> g.hold_time]]

-----------------------------------------------------------------------------
(* fancontrol/state_manager.py: AutoStateManager *)

\* the hold used when HOLD_TIME has no entry for the current mode
DefaultHold == 30

\* '0' if '0' in config['TARGETS'] else '1'
BaseMode(cfg) == IF "0" \in DOMAIN cfg.TARGETS THEN "0" ELSE "1"

\* sorted(keys, key=int, reverse=True)
RECURSIVE SortedDesc(_)
SortedDesc(S) ==
    IF S = {} THEN <<>>
    ELSE LET m == CHOOSE x \in S : \A y \in S : ToInt(y) <= ToInt(x)
         IN  <<m>> \o SortedDesc(S \ {m})

ModeKeys(cfg) == SortedDesc(DOMAIN cfg.THRESHOLDS)

AutoStateManagerInit(cfg) ==
    [current_mode          |-> BaseMode(cfg),
     last_mode_change_time |-> 0,
     pending_mode          |-> "None",
     pending_start_time    |-> 0,
     status_msg            |-> "Init"]

\* Triggered with the comparison val >= limit in place of val > limit
RECURSIVE TriggeredAtLimit(_, _, _)
TriggeredAtLimit(thresh, values, i) ==
    IF i > Len(thresh) THEN "no"
    ELSE LET limit == thresh[i][2]
             val == Get(values, thresh[i][1], 0)
         IN  IF limit = NoValue THEN TriggeredAtLimit(thresh, values, i + 1)
             ELSE IF val = NoValue THEN "TypeError"
             ELSE IF val >= limit THEN "yes"
             ELSE TriggeredAtLimit(thresh, values, i + 1)

\* the inner loop over thresh.items(): "yes" when some value exceeds its
\* limit, "no" when none does, "TypeError" when the comparison val > limit
\* meets a value that is None before any source triggered
RECURSIVE Triggered(_, _, _)
Triggered(thresh, values, i) ==
    IF i > Len(thresh) THEN "no"
    ELSE LET limit == thresh[i][2]
             val == Get(values, thresh[i][1], 0)
         IN  IF limit = NoValue THEN Triggered(thresh, values, i + 1)
             ELSE IF val = NoValue THEN "TypeError"
             ELSE IF val > limit THEN "yes"
             ELSE Triggered(thresh, values, i + 1)

\* the outer loop over mode_keys, from the highest level down
RECURSIVE InstantFrom(_, _, _, _)
InstantFrom(cfg, values, keys, i) ==
    IF i > Len(keys) THEN BaseMode(cfg)
    ELSE LET t == Triggered(cfg.THRESHOLDS[keys[i]], values, 1)
         IN  IF t = "TypeError" THEN "TypeError"
             ELSE IF t = "yes" THEN keys[i]
             ELSE InstantFrom(cfg, values, keys, i + 1)

InstantMode(cfg, values) == InstantFrom(cfg, values, ModeKeys(cfg), 1)

\* Escalate that commits a level on its first sighting when the delay is 0
EscalateCommitsAtOnce(self, cfg, inst, t) ==
    IF self.pending_mode # inst /\ cfg.DELAY_UP > 0
    THEN [self EXCEPT !.pending_mode = inst,
                      !.pending_start_time = t,
                      !.status_msg = "Pending"]
    ELSE IF self.pending_mode # inst \/ t - self.pending_start_time >= cfg.DELAY_UP
    THEN [self EXCEPT !.current_mode = inst,
                      !.last_mode_change_time = t,
                      !.pending_mode = "None",
                      !.status_msg = "Escalated"]
    ELSE [self EXCEPT !.status_msg = "Pending"]

\* Escalate that leaves pending_mode set when it commits
EscalateKeepsPending(self, cfg, inst, t) ==
    IF self.pending_mode # inst
    THEN [self EXCEPT !.pending_mode = inst,
                      !.pending_start_time = t,
                      !.status_msg = "Pending"]
    ELSE IF t - self.pending_start_time >= cfg.DELAY_UP
    THEN [self EXCEPT !.current_mode = inst,
                      !.last_mode_change_time = t,
                      !.status_msg = "Escalated"]
    ELSE [self EXCEPT !.status_msg = "Pending"]

\* Escalate that restarts the delay at every update()
EscalateRestarts(self, cfg, inst, t) ==
    [self EXCEPT !.pending_mode = inst,
                 !.pending_start_time = t,
                 !.status_msg = "Pending"]

\* Escalate that waits for the hold time of the level it leaves
EscalateAfterHold(self, cfg, inst, t) ==
    IF self.pending_mode # inst
    THEN [self EXCEPT !.pending_mode = inst,
                      !.pending_start_time = t,
                      !.status_msg = "Pending"]
    ELSE IF /\ t - self.pending_start_time >= cfg.DELAY_UP
            /\ t - self.last_mode_change_time >=
                   Get(cfg.HOLD_TIME, self.current_mode, DefaultHold)
    THEN [self EXCEPT !.current_mode = inst,
                      !.last_mode_change_time = t,
                      !.pending_mode = "None",
                      !.status_msg = "Escalated"]
    ELSE [self EXCEPT !.status_msg = "Pending"]

\* Escalate without the test elapsed >= delay
EscalateNoDelay(self, cfg, inst, t) ==
    IF self.pending_mode # inst
    THEN [self EXCEPT !.pending_mode = inst,
                      !.pending_start_time = t,
                      !.status_msg = "Pending"]
    ELSE [self EXCEPT !.current_mode = inst,
                      !.last_mode_change_time = t,
                      !.pending_mode = "None",
                      !.status_msg = "Escalated"]

\* the escalation branch
Escalate(self, cfg, inst, t) ==
    IF self.pending_mode # inst
    THEN [self EXCEPT !.pending_mode = inst,
                      !.pending_start_time = t,
                      !.status_msg = "Pending"]
    ELSE IF t - self.pending_start_time >= cfg.DELAY_UP
    THEN [self EXCEPT !.current_mode = inst,
                      !.last_mode_change_time = t,
                      !.pending_mode = "None",
                      !.status_msg = "Escalated"]
    ELSE [self EXCEPT !.status_msg = "Pending"]

\* Deescalate without the test remaining > 0
DeescalateNoHold(self, cfg, inst, t) ==
    [self EXCEPT !.pending_mode = "None",
                 !.current_mode = inst,
                 !.last_mode_change_time = t,
                 !.status_msg = "De-escalated"]

\* the de-escalation branch
Deescalate(self, cfg, inst, t) ==
    LET hold == Get(cfg.HOLD_TIME, self.current_mode, DefaultHold)
        remaining == hold - (t - self.last_mode_change_time)
    IN  IF remaining > 0
        THEN [self EXCEPT !.pending_mode = "None",
                          !.status_msg = "Locked"]
        ELSE [self EXCEPT !.pending_mode = "None",
                          !.current_mode = inst,
                          !.last_mode_change_time = t,
                          !.status_msg = "De-escalated"]

\* update(sensor_values) at time t: the object afterwards, the instant mode
\* computed, and the exception raised ("None" when the call returns)
AutoUpdate(self, cfg, values, t) ==
    LET inst == InstantMode(cfg, values)
    IN  IF inst = "TypeError"
        THEN [self |-> self, inst |-> "None", exc |-> "TypeError"]
        ELSE LET after ==
                     IF ToInt(inst) > ToInt(self.current_mode)
                     THEN Escalate(self, cfg, inst, t)
                     ELSE IF ToInt(inst) < ToInt(self.current_mode)
                     THEN Deescalate(self, cfg, inst, t)
                     ELSE [self EXCEPT !.pending_mode = "None",
                                       !.status_msg = "Stable"]
             IN  [self |-> after, inst |-> inst, exc |-> "None"]

-----------------------------------------------------------------------------
(* fancontrol/controllers.py: SystemFanController *)

TOLERANCE == 30
PWM_MIN == 0
PWM_MAX == 255
STEP_SIZE == 2
\* the error beyond which the step is doubled
BigError == 200
\* current_pwm when the pwm file cannot be read at construction
DefaultPwm == 128
\* target_rpm at construction
DefaultTargetRpm == 1200

Abs(x) == IF x < 0 THEN -x ELSE x
Max(a, b) == IF a > b THEN a ELSE b
Min(a, b) == IF a < b THEN a ELSE b

SystemFanControllerInit(initial_pwm) ==
    [current_pwm |-> initial_pwm,
     current_rpm |-> 0,
     target_rpm  |-> DefaultTargetRpm]

\* set_pwm(val): current_pwm takes the clamped value only when the write
\* to the pwm file succeeds
SetPwm(self, val, write_ok) ==
    LET v == Max(PWM_MIN, Min(PWM_MAX, val))
    IN  IF write_ok THEN [self EXCEPT !.current_pwm = v] ELSE self

\* get_rpm(): the number in the fan input file, 0 when it cannot be read
SysGetRpm(read) == IF read = <<>> THEN 0 ELSE read[1]

\* SysUpdate stepping against the error
SysUpdateWrongSign(self, rpm, write_ok) ==
    LET s1 == [self EXCEPT !.current_rpm = rpm]
        error == s1.target_rpm - rpm
        step == IF Abs(error) > BigError THEN STEP_SIZE * 2 ELSE STEP_SIZE
    IN  IF Abs(error) > TOLERANCE
        THEN LET s2 == [s1 EXCEPT !.current_pwm =
                            IF error > 0 THEN @ - step ELSE @ + step]
             IN  SetPwm(s2, s2.current_pwm, write_ok)
        ELSE s1

\* update(), rpm being what get_rpm() returned (0 when the read failed)
SysUpdate(self, rpm, write_ok) ==
    LET s1 == [self EXCEPT !.current_rpm = rpm]
        error == s1.target_rpm - rpm
        step == IF Abs(error) > BigError THEN STEP_SIZE * 2 ELSE STEP_SIZE
    IN  IF Abs(error) > TOLERANCE
        THEN LET s2 == [s1 EXCEPT !.current_pwm =
                            IF error > 0 THEN @ + step ELSE @ - step]
             IN  SetPwm(s2, s2.current_pwm, write_ok)
        ELSE s1

\* whether update() reaches set_pwm for this reading
Writes(self, rpm) == Abs(self.target_rpm - rpm) > TOLERANCE

\* the fan left as constructed with the pwm file unreadable
FanIdle ==
    /\ fan = SystemFanControllerInit(DefaultPwm)
    /\ pwm_file = DefaultPwm
    /\ wrote = "none"
    /\ plant = 0
    /\ fan_ticks = 0
    /\ fan_input = <<>>

-----------------------------------------------------------------------------
(* fancontrol/controllers.py: GPUFanController *)

\* target_rpm values up to this are not RPM targets
RpmTargetFloor == 100
\* the closed loop's tolerance and the errors beyond which the step grows
GpuTolerance == 50
GpuMidError == 200
GpuFarError == 400
\* the closed loop's clamp on the percentage
GpuPctFloor == 20
GpuPctCeil == 100

\* an nvidia-settings assignment
Cmd(attr, val) == [attr |-> attr, val |-> val]

\* what a call leaves: the object, the commands it ran, the exception it let
\* escape
Done(self, ran, exc) == [self |-> self, cmds |-> ran, exc |-> exc]

\* The outcome of one subprocess.run: "ok" (ran, exit status 0), "fail" (ran,
\* non-zero exit status, which the code does not look at), "raise"
\* (subprocess.run raised OSError: the command could not be run).
Outcomes == {"ok", "fail", "raise"}

\* reset(): the exception is swallowed, and the flag and the remembered
\* percentage are cleared only when subprocess.run returned
Reset(self, o) ==
    IF o = "raise"
    THEN Done(self, <<>>, "None")
    ELSE Done([self EXCEPT !.is_manual_active = FALSE, !.current_pct = 0],
              <<Cmd("GPUFanControlState", 0)>>, "None")

ClampPct(p) == Max(0, Min(100, p))

\* set_speed_pct(target_pct); o1 and o2 are the outcomes of the first and the
\* second subprocess.run the call reaches
SetSpeedPct(self, target_pct, o1, o2) ==
    LET p == ClampPct(target_pct)
        s1 == IF ~self.is_manual_active /\ self.actual_pct > 0
              THEN [self EXCEPT !.current_pct = self.actual_pct]
              ELSE self
        s2 == [s1 EXCEPT !.is_manual_active = TRUE]
    IN  IF p = 0 THEN Reset(self, o1)
        ELSE IF o1 = "raise" THEN Done(s1, <<>>, "OSError")
        ELSE IF o2 = "raise"
        THEN Done(s2, <<Cmd("GPUFanControlState", 1)>>, "OSError")
        ELSE Done([s2 EXCEPT !.current_pct = p],
                  <<Cmd("GPUFanControlState", 1), Cmd("GPUTargetFanSpeed", p)>>,
                  "None")

\* get_rpm(): read is <<rpm, pct>> as returned by get_gpu_fan_speeds for the
\* first fan (<<0, 0>> when the query failed), or <<>> when the call raised
\* and get_rpm() returned 0 from its except branch
GetRpm(self, read) ==
    IF Len(read) = 0
    THEN [self EXCEPT !.current_rpm = 0]
    ELSE [self EXCEPT !.actual_pct = read[2], !.current_rpm = read[1]]

\* GpuStep taking the smallest step for every error
GpuStepFlat(error) == 1

\* the step of the closed loop for an error
GpuStep(error) ==
    IF Abs(error) > GpuFarError THEN 5
    ELSE IF Abs(error) > GpuMidError THEN 2
    ELSE 1

\* GpuUpdate without the lower clamp of the closed loop
GpuUpdateNoFloor(self, read, o1, o2) ==
    LET s0 == GetRpm(self, read)
        s1 == IF ~s0.is_manual_active
              THEN [s0 EXCEPT !.current_pct = s0.actual_pct] ELSE s0
        error == s1.target_rpm - s1.current_rpm
        stepped == IF error > 0 THEN s1.current_pct + GpuStep(error)
                   ELSE s1.current_pct - GpuStep(error)
        s2 == [s1 EXCEPT !.current_pct = Max(1, Min(GpuPctCeil, stepped))]
    IN  IF s1.target_rpm > RpmTargetFloor /\ Abs(error) > GpuTolerance
        THEN SetSpeedPct(s2, s2.current_pct, o1, o2)
        ELSE Done(s1, <<>>, "None")

\* GpuUpdate running the closed loop whatever target_rpm is
GpuUpdateAnyTarget(self, read, o1, o2) ==
    LET s0 == GetRpm(self, read)
        s1 == IF ~s0.is_manual_active
              THEN [s0 EXCEPT !.current_pct = s0.actual_pct] ELSE s0
        error == s1.target_rpm - s1.current_rpm
        stepped == IF error > 0 THEN s1.current_pct + GpuStep(error)
                   ELSE s1.current_pct - GpuStep(error)
        s2 == [s1 EXCEPT !.current_pct =
                   Max(GpuPctFloor, Min(GpuPctCeil, stepped))]
    IN  IF Abs(error) > GpuTolerance
        THEN SetSpeedPct(s2, s2.current_pct, o1, o2)
        ELSE Done(s1, <<>>, "None")

\* update()
GpuUpdate(self, read, o1, o2) ==
    LET s0 == GetRpm(self, read)
        s1 == IF ~s0.is_manual_active
              THEN [s0 EXCEPT !.current_pct = s0.actual_pct] ELSE s0
        error == s1.target_rpm - s1.current_rpm
        stepped == IF error > 0 THEN s1.current_pct + GpuStep(error)
                   ELSE s1.current_pct - GpuStep(error)
        s2 == [s1 EXCEPT !.current_pct =
                   Max(GpuPctFloor, Min(GpuPctCeil, stepped))]
    IN  IF s1.target_rpm > RpmTargetFloor /\ Abs(error) > GpuTolerance
        THEN SetSpeedPct(s2, s2.current_pct, o1, o2)
        ELSE Done(s1, <<>>, "None")

\* __init__(): the fields, then reset()
GPUFanControllerInit(o) ==
    Reset([current_pct |-> 0, target_rpm |-> 0, current_rpm |-> 0,
           actual_pct |-> 0, is_manual_active |-> FALSE], o)

\* the controller left as constructed
GpuIdle ==
    /\ gpu = GPUFanControllerInit("ok").self
    /\ cmds = GPUFanControllerInit("ok").cmds
    /\ gpu_call = "init"
    /\ gpu_arg = 0
    /\ gpu_exc = "None"

-----------------------------------------------------------------------------
(* fan_control.py: configuration, GPUFanController, main() and the handler *)
(* of POST /api/override                                                   *)

SYS_CONFIG ==
    [TARGETS    |-> [k \in {"1", "2", "3"} |->
                        IF k = "1" THEN 1200 ELSE IF k = "2" THEN 1600 ELSE 2000],
     THRESHOLDS |-> [k \in {"2", "3"} |->
                        IF k = "3"
                        THEN <<<<"cpu", 62>>, <<"gpu", 82>>, <<"hdd", 48>>>>
                        ELSE <<<<"cpu", 57>>, <<"gpu", 76>>, <<"hdd", 41>>>>],
     DELAY_UP   |-> 5,
     HOLD_TIME  |-> [k \in {"2", "3"} |-> IF k = "3" THEN 60 ELSE 40]]

GPU_CONFIG ==
    [TARGETS    |-> [k \in {"0", "1", "2", "3", "4"} |->
                        IF k = "0" THEN 0 ELSE IF k = "1" THEN 45
                        ELSE IF k = "2" THEN 50 ELSE IF k = "3" THEN 60
                        ELSE 100],
     THRESHOLDS |-> [k \in {"1", "2", "3", "4"} |->
                        <<<<"cpu", 999>>,
                          <<"gpu", IF k = "4" THEN 82 ELSE IF k = "3" THEN 75
                                   ELSE IF k = "2" THEN 70 ELSE 60>>,
                          <<"hdd", 999>>>>],
     DELAY_UP   |-> 5,
     HOLD_TIME  |-> [k \in {"1", "2", "3", "4"} |-> 30]]

\* seconds between two entries of the history log
LOG_INTERVAL == 5

\* the target used for a system mode without an entry in TARGETS
SysDefaultTarget == 1200
\* the target used for a GPU mode without an entry in TARGETS
GpuDefaultTarget == 0

RuntimeOverrideInit ==
    [g \in {"system", "gpu"} |->
        [enabled |-> FALSE, mode |-> IF g = "system" THEN "1" ELSE "0"]]

\* GPUFanController.reset() of fan_control.py
LegacyReset(self, o) ==
    IF o = "raise" THEN self ELSE [self EXCEPT !.is_manual_active = FALSE]

\* GPUFanController.set_target(target_pct) of fan_control.py: the object
\* afterwards, the commands run and the exception the call lets escape
LegacySetTarget(self, target_pct, o1, o2) ==
    LET s1 == [self EXCEPT !.is_manual_active = TRUE]
        enable == IF self.is_manual_active THEN <<>>
                  ELSE <<Cmd("GPUFanControlState", 1)>>
    IN  IF target_pct = 0
        THEN [self |-> IF self.is_manual_active THEN LegacyReset(self, o1)
                       ELSE self,
              cmds |-> IF self.is_manual_active /\ o1 # "raise"
                       THEN <<Cmd("GPUFanControlState", 0)>> ELSE <<>>,
              exc |-> "None"]
        ELSE IF ~self.is_manual_active /\ o1 = "raise"
        THEN [self |-> self, cmds |-> <<>>, exc |-> "OSError"]
        ELSE IF target_pct = s1.current_pct
        THEN [self |-> s1, cmds |-> enable, exc |-> "None"]
        ELSE IF o2 = "raise"
        THEN [self |-> s1, cmds |-> enable, exc |-> "OSError"]
        ELSE [self |-> [s1 EXCEPT !.current_pct = target_pct],
              cmds |-> enable \o <<Cmd("GPUTargetFanSpeed", target_pct)>>,
              exc |-> "None"]

\* the objects main() builds before its loop
LoopFields ==
    /\ tick = 0
    /\ main_exc = "None"
    /\ runtime_override = RuntimeOverrideInit
    /\ sys_logic = AutoStateManagerInit(SYS_CONFIG)
    /\ gpu_logic = AutoStateManagerInit(GPU_CONFIG)
    /\ sys_fans = [i \in 1..2 |-> SystemFanControllerInit(DefaultPwm)]
    /\ gpu_ctl = [current_pct |-> 0, is_manual_active |-> FALSE]
    /\ modes = [system |-> "None", gpu |-> "None"]
    /\ targets = [system |-> 0, gpu |-> 0]
    /\ current_state = <<>>
    /\ status_reply = [code |-> 0, body |-> <<>>]
    /\ published = <<>>
    /\ last_log_time = 0
    /\ api_pc = <<>>
    /\ api_calls = 0

\* the state main() starts its loop in
LoopInit ==
    /\ it8613 = TRUE
    /\ pc = "logic"
    /\ LoopFields

\* the loop not running
LoopIdle == LoopInit

-----------------------------------------------------------------------------
(* The engine driven by a tick loop: one update() per tick *)

Sources == {"cpu", "gpu"}
CpuTemps == {NoValue, 60, 65, 75}
GpuTemps == {70, 75}

\* the sensor mappings a tick can pass: any source may be missing
SensorMaps ==
    {[s \in {} |-> 0]}
    \cup {[s \in {"cpu"} |-> c] : c \in CpuTemps}
    \cup {[s \in {"gpu"} |-> g] : g \in GpuTemps}
    \cup {[s \in Sources |-> IF s = "cpu" THEN c ELSE g] :
             c \in CpuTemps, g \in GpuTemps}

Profile(target, thresholds) == [target |-> target, thresholds |-> thresholds]

\* the fan groups the engine is built from
Groups ==
    {[profiles |-> <<Profile(1200, <<>>),
                     Profile(1600, <<<<"cpu", 60>>>>),
                     Profile(2000, <<<<"cpu", 70>>>>)>>,
      temp_sources |-> {"cpu"}, delay_up |-> d, hold_time |-> 3] : d \in {0, 2}}
    \cup
    {[profiles |-> <<Profile(0, <<>>),
                     Profile(45, <<<<"gpu", NoValue>>, <<"cpu", 60>>>>),
                     Profile(100, <<<<"cpu", 70>>, <<"gpu", 70>>, <<"hdd", 40>>>>)>>,
      temp_sources |-> {"cpu", "gpu"}, delay_up |-> 2, hold_time |-> 3],
     [profiles |-> <<>>,
      temp_sources |-> {"cpu", "gpu"}, delay_up |-> 2, hold_time |-> 3]}

\* a configuration in the shape of SYS_CONFIG of fan_control.py: no level '0',
\* (cpu, gpu, hdd) limits per level, holds for the upper levels only
LegacyConfig ==
    [TARGETS    |-> [k \in {"1", "2", "3"} |->
                        IF k = "1" THEN 1200 ELSE IF k = "2" THEN 1600 ELSE 2000],
     THRESHOLDS |-> [k \in {"2", "3"} |->
                        IF k = "2"
                        THEN <<<<"cpu", 60>>, <<"gpu", 70>>, <<"hdd", 41>>>>
                        ELSE <<<<"cpu", 70>>, <<"gpu", 999>>, <<"hdd", 48>>>>],
     DELAY_UP   |-> 2,
     HOLD_TIME  |-> [k \in {"2", "3"} |-> IF k = "2" THEN 2 ELSE 3]]

Configs == {ProfilesToLegacyFormat(g) : g \in Groups} \cup {LegacyConfig}

InitEngine ==
    /\ config \in Configs
    /\ logic = AutoStateManagerInit(config)
    /\ now = StartTime
    /\ sensor_values = [s \in {} |-> 0]
    /\ instant_mode = "None"
    /\ run_start = 0
    /\ raised = "None"
    /\ ret = "None"
    /\ logic_before = logic
    /\ steady_since = 0
    /\ FanIdle
    /\ GpuIdle
    /\ LoopIdle

\* one tick: the clock has advanced, the sensors are read, update() is called.
\* instant_mode and run_start record what the calls that returned computed; a
\* call that raises computes no instant mode and leaves them as they were.
Update ==
    \E dt \in 1..MaxDt, values \in SensorMaps :
        LET t == now + dt
            r == AutoUpdate(logic, config, values, t)
        IN  /\ now < StartTime + Horizon
            /\ now' = t
            /\ sensor_values' = values
            /\ logic' = r.self
            /\ raised' = r.exc
            /\ ret' = IF r.exc = "None" THEN r.self.current_mode ELSE "None"
            /\ instant_mode' = IF r.exc = "None" THEN r.inst ELSE instant_mode
            /\ run_start' = IF r.exc # "None" \/ r.inst = instant_mode
                            THEN run_start ELSE t
            /\ UNCHANGED <<config, logic_before, steady_since, fanVars, gpuVars,
                           loopVars>>

NextEngine == Update

SpecEngine == InitEngine /\ [][NextEngine]_vars

-----------------------------------------------------------------------------
(* Claims about AutoStateManager, checked under SpecEngine *)

Lvl(mode) == ToInt(mode)
Raised == Lvl(logic'.current_mode) > Lvl(logic.current_mode)
Lowered == Lvl(logic'.current_mode) < Lvl(logic.current_mode)
HoldOf(mode) == Get(config.HOLD_TIME, mode, DefaultHold)

\* C1: current_mode is raised to a level N only by an update() at which
\* pending_mode was N, every update() since pending_start_time (inclusive)
\* computed instant level N, at least DELAY_UP seconds have passed since
\* pending_start_time, and which is not the first update() of that run of
\* readings (a reading seen on one tick only never raises current_mode).
C1_EscalationNeedsSustainedReadings ==
    [][Raised =>
          /\ logic.pending_mode = logic'.current_mode
          /\ instant_mode' = logic'.current_mode
          /\ run_start' <= logic.pending_start_time
          /\ run_start' < now'
          /\ now' - logic.pending_start_time >= config.DELAY_UP]_vars

\* an escalation was committed by the latest update(), under a positive delay
C1_Witness ==
    /\ logic.status_msg = "Escalated"
    /\ config.DELAY_UP > 0
    /\ raised = "None"

\* C2: current_mode is lowered only by an update() at which at least the hold
\* time of the level being left has passed since last_mode_change_time; an
\* update() that computes a lower instant level before that leaves
\* current_mode as it is.
C2_DeescalationNeedsHold ==
    [][/\ Lowered =>
             now' - logic.last_mode_change_time >= HoldOf(logic.current_mode)
       /\ (/\ now' # now
           /\ raised' = "None"
           /\ Lvl(instant_mode') < Lvl(logic.current_mode)
           /\ now' - logic.last_mode_change_time < HoldOf(logic.current_mode))
          => logic'.current_mode = logic.current_mode]_vars

\* the latest update() lowered current_mode to the baseline after a hold
C2_Witness ==
    /\ logic.status_msg = "De-escalated"
    /\ logic.last_mode_change_time = now
    /\ logic.current_mode = BaseMode(config)

\* the levels whose thresholds entry names a sensor whose value (0 when the
\* mapping has no entry for it) is strictly greater than its limit
Qualifying(values) ==
    {k \in DOMAIN config.THRESHOLDS :
        \E i \in 1..Len(config.THRESHOLDS[k]) :
            LET s == config.THRESHOLDS[k][i][1]
                limit == config.THRESHOLDS[k][i][2]
                v == IF s \in DOMAIN values THEN values[s] ELSE 0
            IN  v # NoValue /\ limit # NoValue /\ v > limit}

HighestQualifying(values, base) ==
    IF Qualifying(values) = {} THEN base
    ELSE CHOOSE k \in Qualifying(values) :
             \A j \in Qualifying(values) : Lvl(j) <= Lvl(k)

\* C3 as stated: the instant level computed by update() is the highest
\* qualifying level, and level 0 when no level qualifies.
C3_InstantLevelOrZero ==
    (raised = "None" /\ instant_mode # "None" /\ now > StartTime)
        => instant_mode = HighestQualifying(sensor_values, "0")

\* C3 amended: the instant level computed by update() is the highest
\* qualifying level, and the baseline level when no level qualifies: level 0
\* when the configuration has a level-0 target, level 1 when it has none.
C3_InstantLevelOrBaseline ==
    (raised = "None" /\ instant_mode # "None" /\ now > StartTime)
        => instant_mode =
               HighestQualifying(sensor_values,
                   IF "0" \in DOMAIN config.TARGETS THEN "0" ELSE "1")

\* update() passed over a sensor exactly at its level-1 limit and a missing
\* sensor, and selected the baseline
C3_Witness ==
    /\ raised = "None"
    /\ now > StartTime
    /\ DOMAIN sensor_values = {"cpu"}
    /\ sensor_values["cpu"] = 60
    /\ "1" \in DOMAIN config.THRESHOLDS
    /\ instant_mode = "0"

\* the mapping with every missing reading (None) replaced by 0
ZeroFilled(values) ==
    [s \in DOMAIN values |-> IF values[s] = NoValue THEN 0 ELSE values[s]]

\* C9: update() returns for every sensor mapping, and a sensor that is absent
\* or has no reading counts as 0 in the comparison.
C9_MissingSensorCountsAsZero ==
    now > StartTime =>
        /\ raised = "None"
        /\ instant_mode =
               HighestQualifying(ZeroFilled(sensor_values), BaseMode(config))

\* an update() that returned and computed a level above current_mode
SeesHigher ==
    /\ now' # now
    /\ raised' = "None"
    /\ Lvl(instant_mode') > Lvl(logic.current_mode)

\* C26 as stated: when two updates in a row, DELAY_UP seconds or more apart,
\* both compute levels above current_mode (the second possibly another level
\* than the first), current_mode is at least the lower of the two after the
\* second.
C26_SustainedAnyLevelsEscalate ==
    [][(/\ SeesHigher
        /\ raised = "None"
        /\ logic.status_msg = "Pending"
        /\ now' - now >= config.DELAY_UP)
          => Lvl(logic'.current_mode) >=
                 Min(Lvl(logic.pending_mode), Lvl(instant_mode'))]_vars

\* C26, amended: when every update() over a span of at least DELAY_UP seconds
\* with two updates or more computes the same level N, current_mode is at
\* least N at the end of the span.
C26_SustainedSameLevelEscalates ==
    (/\ raised = "None"
     /\ instant_mode # "None"
     /\ run_start < now
     /\ now - run_start >= config.DELAY_UP)
        => Lvl(logic.current_mode) >= Lvl(instant_mode)

\* the latest update() ended a span of DELAY_UP > 0 seconds of one level by
\* raising current_mode to it
C26_Witness ==
    /\ raised = "None"
    /\ config.DELAY_UP > 0
    /\ now - run_start >= config.DELAY_UP
    /\ logic.status_msg = "Escalated"
    /\ logic.last_mode_change_time = now
    /\ logic.current_mode = instant_mode

\* C25: in every reachable state pending_mode is none or a level strictly
\* greater than current_mode, and current_mode is the baseline level or a
\* level with a thresholds entry, which has a target in TARGETS.
C25_PendingAboveCurrent ==
    /\ logic.pending_mode # "None" =>
           /\ logic.pending_mode \in DOMAIN config.THRESHOLDS
           /\ Lvl(logic.pending_mode) > Lvl(logic.current_mode)
    /\ \/ logic.current_mode = (IF "0" \in DOMAIN config.TARGETS THEN "0" ELSE "1")
       \/ /\ logic.current_mode \in DOMAIN config.THRESHOLDS
          /\ logic.current_mode \in DOMAIN config.TARGETS

\* a level is pending above a current_mode that is itself above the baseline
C25_Witness ==
    /\ logic.pending_mode # "None"
    /\ logic.current_mode # BaseMode(config)
    /\ logic.current_mode \in DOMAIN config.THRESHOLDS

\* C21: the first update() at which the instant level exceeds current_mode and
\* differs from pending_mode records it as pending_mode with
\* pending_start_time = now and returns the unchanged current_mode, whatever
\* DELAY_UP is (0 included); an update() that raises current_mode is therefore
\* never the first of its run of readings.
C21_FirstSightingOnlyRecordsPending ==
    [][/\ (SeesHigher /\ logic.pending_mode # instant_mode') =>
             /\ logic'.pending_mode = instant_mode'
             /\ logic'.pending_start_time = now'
             /\ logic'.current_mode = logic.current_mode
             /\ ret' = logic.current_mode
       /\ Raised => run_start' < now']_vars

\* under DELAY_UP = 0 the latest update() saw a higher level for the first
\* time and left it pending
C21_Witness ==
    /\ config.DELAY_UP = 0
    /\ raised = "None"
    /\ logic.status_msg = "Pending"
    /\ logic.pending_mode = instant_mode
    /\ logic.pending_start_time = now
    /\ ret = logic.current_mode

-----------------------------------------------------------------------------
(* The engine of a group that ticks may find overridden *)

\* a tick of main() with the group's override enabled: update() is not called,
\* only status_msg is set
OverriddenTick ==
    \E dt \in 1..MaxDt :
        /\ now < StartTime + Horizon
        /\ now' = now + dt
        /\ logic' = [logic EXCEPT !.status_msg = "MANUAL"]
        /\ UNCHANGED <<config, sensor_values, instant_mode, run_start, raised,
                       ret, logic_before, steady_since, fanVars, gpuVars,
                       loopVars>>

NextResume == Update \/ OverriddenTick

SpecResume == InitEngine /\ [][NextResume]_vars

\* C27: the first update() after a period in which the group was overridden
\* does not commit an escalation that was pending before the period; the
\* delay is served by update() calls made after the resumption.
C27_ResumptionRestartsDelay ==
    [][logic.status_msg = "MANUAL" => ~Raised]_vars

-----------------------------------------------------------------------------
(* The engine followed through its calls: logic_before keeps the object as  *)
(* the latest update() found it                                             *)

TrackedUpdate ==
    \E dt \in 1..MaxDt, values \in SensorMaps :
        LET t == now + dt
            r == AutoUpdate(logic, config, values, t)
        IN  /\ now < StartTime + Horizon
            /\ now' = t
            /\ sensor_values' = values
            /\ logic_before' = logic
            /\ steady_since' = IF now > StartTime /\ values = sensor_values
                               THEN steady_since ELSE t
            /\ logic' = r.self
            /\ raised' = r.exc
            /\ ret' = IF r.exc = "None" THEN r.self.current_mode ELSE "None"
            /\ instant_mode' = IF r.exc = "None" THEN r.inst ELSE instant_mode
            /\ run_start' = IF r.exc # "None" \/ r.inst = instant_mode
                            THEN run_start ELSE t
            /\ UNCHANGED <<config, fanVars, gpuVars, loopVars>>

NextTracked == TrackedUpdate

SpecTracked == InitEngine /\ [][NextTracked]_vars

\* the longest the engine waits before it follows a level: DELAY_UP upwards,
\* the longest hold time downwards
SettleTime ==
    LET holds == {HoldOf(m) : m \in DOMAIN config.THRESHOLDS \cup {BaseMode(config)}}
    IN  Max(config.DELAY_UP, CHOOSE h \in holds : \A g \in holds : g <= h)

\* update() has been passed one and the same mapping for SettleTime seconds
\* or more, at two calls or more
Steady ==
    /\ now > StartTime
    /\ steady_since < now
    /\ now - steady_since >= SettleTime

\* C30: once the sensor mapping stays the same and update() keeps being
\* called, current_mode comes to equal the instant level of that mapping (a
\* missing reading counting as 0) and stays there, with pending_mode none:
\* it does so at the latest DELAY_UP seconds, or the hold time, after the
\* mapping stopped changing.
C30_SettlesOnSteadyReadings ==
    Steady =>
        /\ logic.current_mode =
               HighestQualifying(ZeroFilled(sensor_values), BaseMode(config))
        /\ logic.pending_mode = "None"

\* the hold period of current_mode is running at time t
InHold(self, t) ==
    /\ self.last_mode_change_time > 0
    /\ t - self.last_mode_change_time < HoldOf(self.current_mode)

\* C29: the hold never delays an escalation: an update() at which the level
\* pending above current_mode has been pending for DELAY_UP seconds commits it
\* although the hold period of current_mode is still running, and the hold
\* period of the new level runs from the time of that commit.
C29_HoldNeverDelaysEscalation ==
    [][(/\ SeesHigher
        /\ InHold(logic, now')
        /\ logic.pending_mode = instant_mode'
        /\ now' - logic.pending_start_time >= config.DELAY_UP)
          => /\ logic'.current_mode = instant_mode'
             /\ logic'.last_mode_change_time = now'
             /\ logic'.pending_mode = "None"]_vars

\* the latest update() raised current_mode while the hold period of the level
\* it left was still running
C29_Witness ==
    /\ raised = "None"
    /\ logic.status_msg = "Escalated"
    /\ Lvl(logic.current_mode) > Lvl(logic_before.current_mode)
    /\ InHold(logic_before, now)
    /\ logic.last_mode_change_time = now

-----------------------------------------------------------------------------
(* Step 3 of main() for the GPU group, with the profile targets a loaded    *)
(* configuration can hold                                                   *)

\* GPU_CONFIG['TARGETS'] values: the defaults, and an RPM target as
\* load_config() accepts it from fan_config.json
GpuProfileTargets == {0, 45, 50, 60, 100, 1500}

InitGpuGroup ==
    /\ config = LegacyConfig
    /\ logic = AutoStateManagerInit(config)
    /\ now = StartTime
    /\ sensor_values = [s \in {} |-> 0]
    /\ instant_mode = "None"
    /\ run_start = 0
    /\ raised = "None"
    /\ ret = "None"
    /\ logic_before = logic
    /\ steady_since = 0
    /\ FanIdle
    /\ GpuIdle
    /\ LoopIdle

\* gpu_target_pct = GPU_CONFIG['TARGETS'].get(gpu_mode, 0), then
\* gpu_ctl.set_target(gpu_target_pct)
GpuGroupApply ==
    \E target \in GpuProfileTargets, o1 \in {"ok", "raise"}, o2 \in {"ok", "raise"} :
        LET r == LegacySetTarget(gpu_ctl, target, o1, o2)
        IN  /\ gpu_ctl' = r.self
            /\ cmds' = r.cmds
            /\ gpu_exc' = r.exc
            /\ gpu_call' = "set_target"
            /\ gpu_arg' = target
            /\ UNCHANGED <<engineVars, fanVars, gpu, tick, it8613, pc, main_exc,
                           runtime_override, sys_logic, gpu_logic, sys_fans,
                           modes, targets, current_state, last_log_time,
                           api_pc, api_calls, status_reply, published>>

NextGpuGroup == GpuGroupApply

SpecGpuGroup == InitGpuGroup /\ [][NextGpuGroup]_vars

\* the fan-speed values of the commands the latest call ran
SpeedsSent ==
    {cmds[i].val : i \in {j \in 1..Len(cmds) : cmds[j].attr = "GPUTargetFanSpeed"}}

\* C24: a GPU group whose profile target is greater than 100 is driven in
\* closed-loop RPM mode and one whose target is at most 100 in open-loop
\* percentage mode: no fan-speed percentage above 100 is ever sent to the GPU
\* driver.
C24_NoPercentageAbove100 ==
    gpu_call = "set_target" => \A p \in SpeedsSent : p <= 100

-----------------------------------------------------------------------------
(* A system fan driven with arbitrary targets, readings and write outcomes *)

InitialPwms == {0, 99, 128, 254, 255}
FanTargets == {500, 1200, 2000}
RpmReadings == {1100, 1180, 1300}
\* what get_rpm() can find in the fan input file
FanInputs == {<<>>} \cup {<<r>> : r \in RpmReadings}

InitSysFan ==
    /\ config = LegacyConfig
    /\ logic = AutoStateManagerInit(config)
    /\ now = StartTime
    /\ sensor_values = [s \in {} |-> 0]
    /\ instant_mode = "None"
    /\ run_start = 0
    /\ raised = "None"
    /\ ret = "None"
    /\ logic_before = logic
    /\ steady_since = 0
    /\ pwm_file \in InitialPwms
    /\ fan = SystemFanControllerInit(pwm_file)
    /\ wrote = "none"
    /\ plant = 0
    /\ fan_ticks = 0
    /\ fan_input = <<>>
    /\ GpuIdle
    /\ LoopIdle

\* the caller sets target_rpm and calls update(); get_rpm() returns any
\* reading and the write to the pwm file succeeds or fails
SysFanUpdate ==
    \E target \in FanTargets, read \in FanInputs, write_ok \in BOOLEAN :
        LET f == [fan EXCEPT !.target_rpm = target]
            rpm == SysGetRpm(read)
        IN  /\ fan.current_pwm >= PWM_MIN - PwmSlack
            /\ fan_input' = read
            /\ fan.current_pwm <= PWM_MAX + PwmSlack
            /\ fan' = SysUpdate(f, rpm, write_ok)
            /\ wrote' = IF ~Writes(f, rpm) THEN "none"
                        ELSE IF write_ok THEN "ok" ELSE "failed"
            /\ pwm_file' = IF Writes(f, rpm) /\ write_ok
                           THEN fan'.current_pwm ELSE pwm_file
            /\ UNCHANGED <<engineVars, plant, fan_ticks, gpuVars, loopVars>>

NextSysFan == SysFanUpdate

SpecSysFan == InitSysFan /\ [][NextSysFan]_vars

\* the drive value update() computes before set_pwm clamps it, from the error
\* between the target and the RPM that get_rpm() returned
Stepped ==
    LET error == fan'.target_rpm - SysGetRpm(fan_input')
        step == IF Abs(error) > 200 THEN 4 ELSE 2
    IN  IF error > 0 THEN fan.current_pwm + step ELSE fan.current_pwm - step

\* C22: one update() with error = target_rpm - measured RPM (a failed read
\* measuring 0) leaves the drive value alone and writes nothing when
\* |error| <= 30, and otherwise steps it by 2 in the direction of the error, by
\* 4 when |error| > 200; what is written to the pwm file is that value clamped
\* to [0, 255].
C22_StepByError ==
    [][fan_input' # fan_input \/ fan' # fan \/ wrote' # wrote =>
          LET error == fan'.target_rpm - SysGetRpm(fan_input')
              clamped == Max(0, Min(255, Stepped))
          IN  /\ fan'.current_rpm = SysGetRpm(fan_input')
              /\ Abs(error) <= 30 =>
                     /\ wrote' = "none"
                     /\ fan'.current_pwm = fan.current_pwm
                     /\ pwm_file' = pwm_file
              /\ Abs(error) > 30 =>
                     /\ wrote' # "none"
                     /\ wrote' = "ok" =>
                            pwm_file' = clamped /\ fan'.current_pwm = clamped
                     /\ wrote' = "failed" =>
                            pwm_file' = pwm_file /\ fan'.current_pwm = Stepped]_vars

\* the latest update() could not read the RPM, took it as 0 and raised the
\* drive value by 4, and the write went through
C22_Witness ==
    /\ fan_input = <<>>
    /\ wrote = "ok"
    /\ fan.current_rpm = 0
    /\ fan.target_rpm = 1200
    /\ pwm_file = 103
    /\ fan.current_pwm = 103

\* C5: after any sequence of update() calls, with any target, any measured
\* RPM and any mix of succeeding and failing writes, current_pwm is within
\* [0, 255].
C5_PwmWithinRange ==
    fan.current_pwm >= PWM_MIN /\ fan.current_pwm <= PWM_MAX

-----------------------------------------------------------------------------
(* A system fan in closed loop with a simulated fan: the measured RPM is    *)
(* plant * (value of the pwm file), the target is fixed, writes succeed     *)

\* RPM per unit of drive value
Plants == {8, 30, 40}
PlantTargets == {1200, 2000, 4000}
PlantRpm(k, pwm) == k * pwm

\* the target is reachable: some drive value puts the RPM within tolerance
Reachable(k, target) ==
    \E p \in PWM_MIN..PWM_MAX : Abs(target - PlantRpm(k, p)) <= TOLERANCE

\* one step of the base size moves the RPM by no more than the width of the
\* tolerance band
Gentle(k) ==
    \A p \in PWM_MIN..(PWM_MAX - STEP_SIZE) :
        PlantRpm(k, p + STEP_SIZE) - PlantRpm(k, p) <= 2 * TOLERANCE

\* the number of update() calls within which the loop settles
ConvergeTicks == (PWM_MAX - PWM_MIN) \div STEP_SIZE + 2

InitPlant ==
    /\ config = LegacyConfig
    /\ logic = AutoStateManagerInit(config)
    /\ now = StartTime
    /\ sensor_values = [s \in {} |-> 0]
    /\ instant_mode = "None"
    /\ run_start = 0
    /\ raised = "None"
    /\ ret = "None"
    /\ logic_before = logic
    /\ steady_since = 0
    /\ plant \in Plants
    /\ pwm_file \in InitialPwms
    /\ \E target \in PlantTargets :
           /\ Reachable(plant, target)
           /\ fan = [SystemFanControllerInit(pwm_file) EXCEPT !.target_rpm = target]
    /\ wrote = "none"
    /\ fan_ticks = 0
    /\ fan_input = <<>>
    /\ GpuIdle
    /\ LoopIdle

PlantUpdate ==
    LET rpm == PlantRpm(plant, pwm_file)
    IN  /\ fan_ticks < ConvergeTicks + 2
        /\ fan_ticks' = fan_ticks + 1
        /\ fan_input' = <<rpm>>
        /\ fan' = SysUpdate(fan, rpm, TRUE)
        /\ wrote' = IF Writes(fan, rpm) THEN "ok" ELSE "none"
        /\ pwm_file' = IF Writes(fan, rpm) THEN fan'.current_pwm ELSE pwm_file
        /\ UNCHANGED <<engineVars, plant, gpuVars, loopVars>>

NextPlant == PlantUpdate

SpecPlant == InitPlant /\ [][NextPlant]_vars

\* after ConvergeTicks calls the next update() reads an RPM within tolerance
\* of the target and leaves the drive value as it is
SettledAfterBound ==
    fan_ticks >= ConvergeTicks =>
        /\ Abs(fan'.target_rpm - fan'.current_rpm) <= TOLERANCE
        /\ fan'.current_pwm = fan.current_pwm
        /\ pwm_file' = pwm_file

\* C8 as stated: with a fixed target, a fixed monotone mapping from drive
\* value to RPM under which the target is reachable, and writes that succeed,
\* update() reaches within a bounded number of ticks a state where
\* |target_rpm - current_rpm| <= 30 and the drive value no longer changes.
C8_ConvergesForEveryPlant == [][SettledAfterBound]_vars

\* C8 amended: the same, for a mapping under which one base step (2 units)
\* of the drive value changes the RPM by at most 60, the width of the
\* tolerance band.
C8_ConvergesForGentlePlant == [][Gentle(plant) => SettledAfterBound]_vars

\* the loop has run past the bound on a gentle fan, after having stepped the
\* drive value, and sits within tolerance
C8_Witness ==
    /\ Gentle(plant)
    /\ fan_ticks > ConvergeTicks
    /\ fan.current_pwm # 0 /\ fan.current_pwm # 99 /\ fan.current_pwm # 128
    /\ fan.current_pwm # 254 /\ fan.current_pwm # 255
    /\ Abs(fan.target_rpm - fan.current_rpm) <= TOLERANCE

-----------------------------------------------------------------------------
(* A GPU fan controller called with arbitrary arguments, readings and       *)
(* command outcomes                                                         *)

\* percentages passed to set_speed_pct
Pcts == {-5, 0, 15, 60, 100, 130}
\* targets passed to set_target_rpm
GpuTargets == {0, 100, 1500}
\* <<rpm, pct>> readings of the first fan
GpuReads == {<<0, 0>>, <<1250, 40>>, <<1400, 21>>, <<1500, 50>>, <<2100, 99>>}

InitGpu ==
    /\ config = LegacyConfig
    /\ logic = AutoStateManagerInit(config)
    /\ now = StartTime
    /\ sensor_values = [s \in {} |-> 0]
    /\ instant_mode = "None"
    /\ run_start = 0
    /\ raised = "None"
    /\ ret = "None"
    /\ logic_before = logic
    /\ steady_since = 0
    /\ FanIdle
    /\ \E o \in Outcomes :
           /\ gpu = GPUFanControllerInit(o).self
           /\ cmds = GPUFanControllerInit(o).cmds
    /\ gpu_call = "init"
    /\ gpu_arg = 0
    /\ gpu_exc = "None"
    /\ LoopIdle

GpuReset ==
    \E o \in Outcomes :
        LET r == Reset(gpu, o)
        IN  /\ gpu' = r.self
            /\ cmds' = r.cmds
            /\ gpu_exc' = r.exc
            /\ gpu_call' = "reset"
            /\ gpu_arg' = 0
            /\ UNCHANGED <<engineVars, fanVars, loopVars>>

GpuSetSpeedPct ==
    \E p \in Pcts, o1 \in Outcomes, o2 \in Outcomes :
        LET r == SetSpeedPct(gpu, p, o1, o2)
        IN  /\ gpu' = r.self
            /\ cmds' = r.cmds
            /\ gpu_exc' = r.exc
            /\ gpu_call' = "set_speed_pct"
            /\ gpu_arg' = p
            /\ UNCHANGED <<engineVars, fanVars, loopVars>>

\* set_target_rpm(rpm)
GpuSetTargetRpm ==
    \E rpm \in GpuTargets :
        /\ gpu' = [gpu EXCEPT !.target_rpm = rpm]
        /\ cmds' = <<>>
        /\ gpu_exc' = "None"
        /\ gpu_call' = "set_target_rpm"
        /\ gpu_arg' = rpm
        /\ UNCHANGED <<engineVars, fanVars, loopVars>>

GpuUpdateCall ==
    \E read \in GpuReads \cup {<<>>}, o1 \in Outcomes, o2 \in Outcomes :
        LET r == GpuUpdate(gpu, read, o1, o2)
        IN  /\ gpu' = r.self
            /\ cmds' = r.cmds
            /\ gpu_exc' = r.exc
            /\ gpu_call' = "update"
            /\ gpu_arg' = 0
            /\ UNCHANGED <<engineVars, fanVars, loopVars>>

NextGpu == GpuReset \/ GpuSetSpeedPct \/ GpuSetTargetRpm \/ GpuUpdateCall

SpecGpu == InitGpu /\ [][NextGpu]_vars

\* the percentages of the fan-speed commands the latest call ran
SpeedsCommanded ==
    {cmds[i].val : i \in {j \in 1..Len(cmds) : cmds[j].attr = "GPUTargetFanSpeed"}}

\* C6: whenever update() runs with target_rpm > 100 and issues a fan-speed
\* command, the commanded percentage is at least 20 and at most 100.
C6_ClosedLoopKeepsFloor ==
    (gpu_call = "update" /\ gpu.target_rpm > RpmTargetFloor)
        => \A p \in SpeedsCommanded : p >= GpuPctFloor /\ p <= GpuPctCeil

\* update() met a negative error at the floor and commanded 20 again
C6_Witness ==
    /\ gpu_call = "update"
    /\ gpu.target_rpm > RpmTargetFloor
    /\ gpu.target_rpm - gpu.current_rpm < -GpuTolerance
    /\ SpeedsCommanded = {GpuPctFloor}

\* C7: after every call set_speed_pct(0), is_manual_active is false, whatever
\* it was before and whether or not the command run by reset() succeeds.
C7_ZeroClearsManual ==
    (gpu_call = "set_speed_pct" /\ ClampPct(gpu_arg) = 0)
        => ~gpu.is_manual_active

\* C16: when a write to the drive channel fails (the GPU driver command
\* cannot be run), update() and set_speed_pct() return normally, without
\* raising to the caller.
C16_WriteFailureNotRaised ==
    gpu_call \in {"update", "set_speed_pct"} => gpu_exc = "None"

\* C18: every call set_speed_pct(p) with clamped p > 0 issues the
\* enable-manual-control command, then one fan-speed command for p, and ends
\* with is_manual_active true and current_pct equal to p.
C18_PositivePctReasserts ==
    (gpu_call = "set_speed_pct" /\ ClampPct(gpu_arg) > 0)
        => /\ cmds = <<Cmd("GPUFanControlState", 1),
                       Cmd("GPUTargetFanSpeed", ClampPct(gpu_arg))>>
           /\ gpu.is_manual_active
           /\ gpu.current_pct = ClampPct(gpu_arg)

\* C19: a call with percentage 0 issues no fan-speed command and leaves the
\* remembered drive value at 0.
C19_ZeroForgetsDriveValue ==
    (gpu_call = "set_speed_pct" /\ ClampPct(gpu_arg) = 0)
        => /\ SpeedsCommanded = {}
           /\ gpu.current_pct = 0

\* C20: while target_rpm is not greater than 100, update() issues no driver
\* command and does not change is_manual_active, and a fan in manual control
\* keeps its last commanded percentage.
C20_InertWithoutRpmTarget ==
    [][(gpu_call' = "update" /\ gpu.target_rpm <= RpmTargetFloor)
          => /\ cmds' = <<>>
             /\ gpu'.is_manual_active = gpu.is_manual_active
             /\ gpu.is_manual_active => gpu'.current_pct = gpu.current_pct]_vars

\* update() has run with target_rpm 0 on a fan in manual control at 60 %,
\* which was reading 1400 RPM, and has left it so
C20_Witness ==
    /\ gpu_call = "update"
    /\ gpu.target_rpm = 0
    /\ gpu.current_rpm = 1400
    /\ gpu.is_manual_active
    /\ gpu.current_pct = 60
    /\ cmds = <<>>

\* the percentage the closed loop starts from: the remembered one in manual
\* control, otherwise the one just read from the fan
GpuBasePct == IF gpu.is_manual_active THEN gpu.current_pct ELSE gpu'.actual_pct

\* the percentage the claim gives for an error
GpuMovedPct(error) ==
    LET step == IF Abs(error) > 400 THEN 5 ELSE IF Abs(error) > 200 THEN 2 ELSE 1
        moved == IF error > 0 THEN GpuBasePct + step ELSE GpuBasePct - step
    IN  Max(20, Min(100, moved))

\* C23: one update() with target_rpm > 100 and error = target_rpm - measured
\* RPM issues no command when |error| <= 50; otherwise it moves the percentage
\* in the direction of the error by 1 (|error| <= 200), 2 (|error| <= 400) or
\* 5 (|error| > 400), clamps it to [20, 100] and hands it to set_speed_pct,
\* whose commands and end state are those of the call.
C23_ClosedLoopStep ==
    [][(gpu_call' = "update" /\ gpu.target_rpm > 100 /\ <<gpu, cmds, gpu_call>>' # <<gpu, cmds, gpu_call>>)
          => LET error == gpu.target_rpm - gpu'.current_rpm
                 pct == GpuMovedPct(error)
                 before == [gpu EXCEPT !.current_rpm = gpu'.current_rpm,
                                       !.actual_pct = gpu'.actual_pct,
                                       !.current_pct = pct]
             IN  /\ Abs(error) <= 50 => cmds' = <<>> /\ gpu_exc' = "None"
                 /\ Abs(error) > 50 =>
                        /\ \E o1 \in Outcomes, o2 \in Outcomes :
                               LET r == SetSpeedPct(before, pct, o1, o2)
                               IN  gpu' = r.self /\ cmds' = r.cmds /\ gpu_exc' = r.exc
                        /\ SpeedsCommanded' \subseteq {pct}
                        /\ gpu_exc' = "None" =>
                               SpeedsCommanded' = {pct} /\ gpu'.current_pct = pct]_vars

\* update() met an error of 250 RPM on a fan in manual control at 60 % and
\* commanded 62 %
C23_Witness ==
    /\ gpu_call = "update"
    /\ gpu_exc = "None"
    /\ gpu.target_rpm = 1500
    /\ gpu.current_rpm = 1250
    /\ gpu.is_manual_active
    /\ cmds = <<Cmd("GPUFanControlState", 1), Cmd("GPUTargetFanSpeed", 62)>>

-----------------------------------------------------------------------------
(* The scripted scenario: one system group, its engine and one of its fans, *)
(* ticks one second apart                                                   *)

ScenarioGroup ==
    [profiles |-> <<Profile(1200, <<>>),
                    Profile(1600, <<<<"cpu", 60>>>>),
                    Profile(2000, <<<<"cpu", 70>>>>)>>,
     temp_sources |-> {"cpu"}, delay_up |-> 5, hold_time |-> 40]

\* the reading fed on a tick: 75 on the first six ticks, 50 afterwards
ScenarioCpu(n) == IF n <= 6 THEN 75 ELSE 50

\* the target of a mode, 1200 for a mode without one
SysTarget(cfg, mode) == Get(cfg.TARGETS, mode, DefaultTargetRpm)

ScenarioRpms == {1180, 1990}

InitScenario ==
    /\ config = ProfilesToLegacyFormat(ScenarioGroup)
    /\ logic = AutoStateManagerInit(config)
    /\ now = StartTime
    /\ sensor_values = [s \in {} |-> 0]
    /\ instant_mode = "None"
    /\ run_start = 0
    /\ raised = "None"
    /\ ret = "None"
    /\ logic_before = logic
    /\ steady_since = 0
    /\ FanIdle
    /\ GpuIdle
    /\ LoopIdle

\* one pass of the loop: read the sensor, update the engine, give the mode's
\* target to the fan and update the fan
ScenarioTick ==
    \E rpm \in ScenarioRpms :
        LET t == now + 1
            values == [s \in {"cpu"} |-> ScenarioCpu(tick + 1)]
            r == AutoUpdate(logic, config, values, t)
            f == [fan EXCEPT !.target_rpm = SysTarget(config, r.self.current_mode)]
        IN  /\ tick < ScenarioLen
            /\ tick' = tick + 1
            /\ now' = t
            /\ sensor_values' = values
            /\ logic' = r.self
            /\ raised' = r.exc
            /\ ret' = r.self.current_mode
            /\ instant_mode' = r.inst
            /\ run_start' = IF r.inst = instant_mode THEN run_start ELSE t
            /\ fan_input' = <<rpm>>
            /\ fan' = SysUpdate(f, rpm, TRUE)
            /\ wrote' = IF Writes(f, rpm) THEN "ok" ELSE "none"
            /\ pwm_file' = IF Writes(f, rpm) THEN fan'.current_pwm ELSE pwm_file
            /\ UNCHANGED <<config, logic_before, steady_since, plant, fan_ticks, gpuVars, mainVars>>

NextScenario == ScenarioTick

SpecScenario == InitScenario /\ [][NextScenario]_vars

\* C4: with profiles [1200; 1600, cpu>60; 2000, cpu>70], delayUp 5, holdTime
\* 40 and ticks one second apart from level 0: cpu=75 on six ticks leaves
\* current_mode at 0 on ticks 1..5 and sets it to 2 (target 2000) on tick 6;
\* cpu=50 afterwards keeps it at 2 on every tick less than 40 s after tick 6
\* and sets it to 0 on the first tick 40 s after it (tick 46).
C4_Scenario ==
    /\ tick \in 1..5 => logic.current_mode = "0" /\ fan.target_rpm = 1200
    /\ tick \in 6..45 => logic.current_mode = "2" /\ fan.target_rpm = 2000
    /\ tick = 6 => logic.last_mode_change_time = now
    /\ tick >= 46 => logic.current_mode = "0" /\ fan.target_rpm = 1200
    /\ tick = 46 => logic.status_msg = "De-escalated"

\* the tick 40 s after the commit of tick 6 has lowered the mode to 0
C4_Witness ==
    /\ tick = 46
    /\ logic.current_mode = "0"
    /\ logic.status_msg = "De-escalated"
    /\ now - 40 = StartTime + 6

-----------------------------------------------------------------------------
(* main() of fan_control.py running beside the HTTP handler thread *)

\* (cpu, gpu, hdd) as returned by get_vals()
TickSensors ==
    {[s \in {"cpu", "gpu", "hdd"} |->
         IF s = "cpu" THEN r[1] ELSE IF s = "gpu" THEN r[2] ELSE r[3]] :
       r \in {<<50, 50, 30>>, <<65, 85, 30>>}}
\* fan RPM readings during a tick
TickRpms == {1000}
\* the 'mode' values of override requests
OverrideModes == {"3", "x"}

InitLoop ==
    /\ config = LegacyConfig
    /\ logic = AutoStateManagerInit(config)
    /\ now = StartTime
    /\ sensor_values = [s \in {} |-> 0]
    /\ instant_mode = "None"
    /\ run_start = 0
    /\ raised = "None"
    /\ ret = "None"
    /\ logic_before = logic
    /\ steady_since = 0
    /\ FanIdle
    /\ GpuIdle
    /\ LoopInit

readVars == <<status_reply, published>>

loopRest == <<it8613, config, logic, sensor_values, instant_mode, run_start, raised, ret,
              logic_before, steady_since, fanVars, gpuVars>>

\* main() is in its loop
Running == pc \in {"logic", "apply", "publish", "log", "sleep"}

\* a resolution that calls update() whatever the override says
ResolveIgnoresOverride(lg, cfg, ovr, values, t) ==
    LET r == AutoUpdate(lg, cfg, values, t)
    IN  [self |-> r.self, mode |-> r.self.current_mode]

\* one group's mode: the override's mode when it is enabled, else update()
Resolve(lg, cfg, ovr, values, t) ==
    IF ovr.enabled
    THEN [self |-> [lg EXCEPT !.status_msg = "MANUAL"], mode |-> ovr.mode]
    ELSE LET r == AutoUpdate(lg, cfg, values, t)
         IN  [self |-> r.self, mode |-> r.self.current_mode]

\* steps 1 and 2 of the loop body: read the sensors, resolve both modes
TickLogic ==
    \E values \in TickSensors :
        LET s == Resolve(sys_logic, SYS_CONFIG, runtime_override["system"], values, now)
            g == Resolve(gpu_logic, GPU_CONFIG, runtime_override["gpu"], values, now)
        IN  /\ pc = "logic"
            /\ sys_logic' = s.self
            /\ gpu_logic' = g.self
            /\ modes' = [system |-> s.mode, gpu |-> g.mode]
            /\ pc' = "apply"
            /\ UNCHANGED <<now, tick, main_exc, runtime_override, sys_fans, gpu_ctl,
                           targets, current_state, last_log_time, api_pc,
                           api_calls, readVars, loopRest>>

\* step 3: look the targets up, update the system fans, set the GPU target
TickApply ==
    \E rpm2 \in TickRpms, rpm3 \in TickRpms, o1 \in {"ok", "raise"},
       o2 \in {"ok", "raise"} :
        LET sys_target == Get(SYS_CONFIG.TARGETS, modes.system, SysDefaultTarget)
            gpu_target_pct == Get(GPU_CONFIG.TARGETS, modes.gpu, GpuDefaultTarget)
            g == LegacySetTarget(gpu_ctl, gpu_target_pct, o1, o2)
        IN  /\ pc = "apply"
            /\ targets' = [system |-> sys_target, gpu |-> gpu_target_pct]
            /\ sys_fans' =
                   [i \in 1..2 |->
                       SysUpdate([sys_fans[i] EXCEPT !.target_rpm = sys_target],
                                 IF i = 1 THEN rpm2 ELSE rpm3, TRUE)]
            /\ gpu_ctl' = g.self
            /\ main_exc' = g.exc
            /\ pc' = IF g.exc = "None" THEN "publish" ELSE "crashed"
            /\ UNCHANGED <<now, tick, runtime_override, sys_logic, gpu_logic,
                           modes, current_state, last_log_time, api_pc,
                           api_calls, readVars, loopRest>>

\* step 4: build api_data and publish it under the lock
TickPublish ==
    /\ pc = "publish"
    /\ current_state' =
           <<[g \in {"system", "gpu"} |->
                [mode     |-> modes[g],
                 target   |-> targets[g],
                 status   |-> IF g = "system" THEN sys_logic.status_msg
                              ELSE gpu_logic.status_msg,
                 isManual |-> runtime_override[g].enabled]]>>
    /\ published' = <<[logic |-> current_state'[1], override |-> runtime_override]>>
    /\ pc' = "log"
    /\ UNCHANGED <<now, tick, main_exc, runtime_override, sys_logic, gpu_logic,
                   sys_fans, gpu_ctl, modes, targets, last_log_time, api_pc,
                   api_calls, status_reply, loopRest>>

\* step 5: every LOG_INTERVAL seconds write a history entry, which holds
\* int(sys_mode) and int(gpu_mode)
TickLog ==
    LET due == now - last_log_time >= LOG_INTERVAL
        bad == ~IsDigit(modes.system) \/ ~IsDigit(modes.gpu)
    IN  /\ pc = "log"
        /\ main_exc' = IF due /\ bad THEN "ValueError" ELSE "None"
        /\ pc' = IF due /\ bad THEN "crashed" ELSE "sleep"
        /\ last_log_time' = IF due /\ ~bad THEN now ELSE last_log_time
        /\ UNCHANGED <<now, tick, runtime_override, sys_logic, gpu_logic,
                       sys_fans, gpu_ctl, modes, targets, current_state,
                       api_pc, api_calls, readVars, loopRest>>

\* the end of the loop body: time.sleep(1)
TickSleep ==
    /\ pc = "sleep"
    /\ tick < MaxTicks
    /\ tick' = tick + 1
    /\ now' = now + 1
    /\ pc' = "logic"
    /\ UNCHANGED <<main_exc, runtime_override, sys_logic, gpu_logic, sys_fans,
                   gpu_ctl, modes, targets, current_state, last_log_time,
                   api_pc, api_calls, readVars, loopRest>>

\* handle_override, first assignment: runtime_override[type]['enabled']; the
\* request is remembered when it holds a 'mode'
ApiOverrideEnabled ==
    \E type \in {"system", "gpu"}, enabled \in BOOLEAN,
       mode \in OverrideModes \cup {"None"} :
        /\ api_pc = <<>>
        /\ Running
        /\ api_calls < MaxApiCalls
        /\ api_calls' = api_calls + 1
        /\ runtime_override' = [runtime_override EXCEPT ![type].enabled = enabled]
        /\ api_pc' = IF mode = "None" THEN <<>>
                     ELSE <<type, mode, runtime_override[type]>>
        /\ UNCHANGED <<now, tick, pc, main_exc, sys_logic, gpu_logic, sys_fans,
                       gpu_ctl, modes, targets, current_state, last_log_time,
                       readVars, loopRest>>

\* handle_override, second assignment: runtime_override[type]['mode']
ApiOverrideMode ==
    /\ api_pc # <<>>
    /\ Running
    /\ runtime_override' = [runtime_override EXCEPT ![api_pc[1]].mode = api_pc[2]]
    /\ api_pc' = <<>>
    /\ UNCHANGED <<now, tick, pc, main_exc, sys_logic, gpu_logic, sys_fans, gpu_ctl,
                   modes, targets, current_state, last_log_time, api_calls,
                   readVars, loopRest>>

\* handle_status: 503 while nothing is published, else json.dumps of
\* current_state['data'], whose 'override' entry is runtime_override itself
ApiStatus ==
    /\ api_pc = <<>>
    /\ Running
    /\ api_calls < MaxApiCalls
    /\ api_calls' = api_calls + 1
    /\ status_reply' =
           IF current_state = <<>> THEN [code |-> 503, body |-> <<>>]
           ELSE [code |-> 200,
                 body |-> <<[logic    |-> current_state[1],
                             override |-> runtime_override]>>]
    /\ UNCHANGED <<now, tick, pc, main_exc, runtime_override, sys_logic,
                   gpu_logic, sys_fans, gpu_ctl, modes, targets, current_state,
                   last_log_time, api_pc, published, loopRest>>

\* the 'override' entries of posted configurations
PostedOverrides == {[enabled |-> TRUE, mode |-> "3"],
                    [enabled |-> FALSE, mode |-> "1"]}

\* handle_post_config with an 'override' entry for one group: the group's
\* override is replaced by the posted one, and the configuration is saved
ApiPostConfig ==
    \E type \in {"system", "gpu"}, posted \in PostedOverrides :
        /\ api_pc = <<>>
        /\ Running
        /\ api_calls < MaxApiCalls
        /\ api_calls' = api_calls + 1
        /\ runtime_override' = [runtime_override EXCEPT ![type] = posted]
        /\ UNCHANGED <<now, tick, pc, main_exc, sys_logic, gpu_logic, sys_fans,
                       gpu_ctl, modes, targets, current_state, last_log_time,
                       api_pc, readVars, loopRest>>

NextLoop ==
    \/ TickLogic \/ TickApply \/ TickPublish \/ TickLog \/ TickSleep
    \/ ApiOverrideEnabled \/ ApiOverrideMode \/ ApiPostConfig

SpecLoop == InitLoop /\ [][NextLoop]_vars

\* the targets have been applied for the modes of this tick
Applied == pc \in {"publish", "log", "sleep"}

\* C10: on every tick, for every group, when the resolved mode has no
\* matching profile, the target applied to the group's actuators is 0 and
\* the tick completes without raising.
C10_MissingProfileGivesZero ==
    /\ (Applied /\ modes.system \notin DOMAIN SYS_CONFIG.TARGETS)
          => /\ targets.system = 0
             /\ \A i \in 1..2 : sys_fans[i].target_rpm = 0
    /\ (Applied /\ modes.gpu \notin DOMAIN GPU_CONFIG.TARGETS)
          => targets.gpu = 0
    /\ (pc = "crashed" /\ main_exc = "ValueError")
          => /\ modes.system \in DOMAIN SYS_CONFIG.TARGETS
             /\ modes.gpu \in DOMAIN GPU_CONFIG.TARGETS

\* what a tick that reads the override ovr uses for the group: the override's
\* mode, or the engine
Used(ovr) == IF ovr.enabled THEN ovr.mode ELSE "auto"

\* C11: under every interleaving of the tick loop with an override request
\* that changes both enabled and mode of a group, a tick resolves the group's
\* mode from the complete old override or from the complete new one, never
\* from the new enabled together with the old mode.
C11_OverrideNeverTorn ==
    [][(pc = "logic" /\ pc' = "apply" /\ api_pc # <<>>)
          => Used(runtime_override[api_pc[1]]) \in
                 {Used(api_pc[3]),
                  Used([enabled |-> runtime_override[api_pc[1]].enabled,
                        mode    |-> api_pc[2]])}]_vars

\* the loop and the override requests beside status requests
\* C28: in every published snapshot a group's isManual flag is true exactly
\* when that snapshot's mode of the group was taken from the override (status
\* MANUAL), and false exactly when update() produced it.
C28_IsManualMatchesMode ==
    current_state # <<>> =>
        \A g \in {"system", "gpu"} :
            current_state[1][g].isManual <=> current_state[1][g].status = "MANUAL"

NextStatus == NextLoop \/ ApiStatus

SpecStatus == InitLoop /\ [][NextStatus]_vars

\* C12: under every interleaving of the tick loop, status reads and override
\* writes, the snapshot a status read returns equals, field for field, the
\* snapshot a single tick published: it has not changed since publication and
\* holds no value of a later override write.
C12_StatusIsPublishedSnapshot ==
    [][(status_reply' # status_reply /\ status_reply'.code = 200)
          => status_reply'.body = published]_vars

\* the engine object, its status message apart, is as it was: update() was
\* not called on it
NotUpdated(before, after) == after = [before EXCEPT !.status_msg = "MANUAL"]

\* C14: on every tick where a group's override is enabled, the mode used for
\* the group is the override's mode, update() is not called for the group,
\* and the target given to the group's actuators on that tick is the target
\* of the forced mode's profile.
C14_OverrideForcesMode ==
    [][/\ (pc = "logic" /\ pc' = "apply")
          => /\ runtime_override["system"].enabled
                   => /\ modes'.system = runtime_override["system"].mode
                      /\ NotUpdated(sys_logic, sys_logic')
             /\ runtime_override["gpu"].enabled
                   => /\ modes'.gpu = runtime_override["gpu"].mode
                      /\ NotUpdated(gpu_logic, gpu_logic')
       /\ (pc = "apply" /\ pc' # "apply")
          => /\ (/\ sys_logic.status_msg = "MANUAL"
                 /\ modes.system \in DOMAIN SYS_CONFIG.TARGETS)
                   => /\ targets'.system = SYS_CONFIG.TARGETS[modes.system]
                      /\ \A i \in 1..2 :
                            sys_fans'[i].target_rpm = SYS_CONFIG.TARGETS[modes.system]
             /\ (/\ gpu_logic.status_msg = "MANUAL"
                 /\ modes.gpu \in DOMAIN GPU_CONFIG.TARGETS)
                   => /\ targets'.gpu = GPU_CONFIG.TARGETS[modes.gpu]
                      /\ (pc' = "publish" /\ targets'.gpu # 0)
                            => gpu_ctl'.current_pct = targets'.gpu]_vars

\* both groups forced to level 3 and their targets, 2000 RPM and 60 %, applied
C14_Witness ==
    /\ pc = "publish"
    /\ sys_logic.status_msg = "MANUAL" /\ gpu_logic.status_msg = "MANUAL"
    /\ modes = [system |-> "3", gpu |-> "3"]
    /\ targets = [system |-> 2000, gpu |-> 60]
    /\ \A i \in 1..2 : sys_fans[i].target_rpm = 2000
    /\ gpu_ctl = [current_pct |-> 60, is_manual_active |-> TRUE]

\* currentMode, pendingMode, pendingStartTime and lastModeChangeTime of an
\* engine object
ModeFields(lg) == <<lg.current_mode, lg.pending_mode, lg.pending_start_time,
                    lg.last_mode_change_time>>

\* C15: no action other than update() changes a group's currentMode,
\* pendingMode, pendingStartTime or lastModeChangeTime: they change only in
\* the step of a tick that resolves the modes, and only for a group whose
\* override is not enabled.
C15_OnlyUpdateChangesModeFields ==
    [][/\ ModeFields(sys_logic') # ModeFields(sys_logic)
          => (pc = "logic" /\ ~runtime_override["system"].enabled)
       /\ ModeFields(gpu_logic') # ModeFields(gpu_logic)
          => (pc = "logic" /\ ~runtime_override["gpu"].enabled)]_vars

\* the system group is overridden and keeps its fields while update() has
\* recorded a pending level for the GPU group in the same tick
C15_Witness ==
    /\ pc = "apply"
    /\ sys_logic.status_msg = "MANUAL"
    /\ ModeFields(sys_logic) = ModeFields(AutoStateManagerInit(SYS_CONFIG))
    /\ gpu_logic.pending_mode = "4"

-----------------------------------------------------------------------------
(* the ways the process of fan_control.py ends *)

endRest == <<now, tick, runtime_override, sys_logic, gpu_logic, sys_fans,
             modes, targets, current_state, last_log_time, api_pc,
             readVars, loopRest>>

\* Ctrl-C while main() is in its loop: the except clause calls gpu_ctl.reset()
KeyboardInterrupt ==
    \E o \in {"ok", "raise"} :
        /\ Running
        /\ gpu_ctl' = LegacyReset(gpu_ctl, o)
        /\ main_exc' = "KeyboardInterrupt"
        /\ pc' = "exited"
        /\ UNCHANGED <<api_calls, endRest>>

\* SIGTERM: no handler is installed, the process ends where it is
Terminate ==
    /\ Running
    /\ main_exc' = "SIGTERM"
    /\ pc' = "killed"
    /\ UNCHANGED <<gpu_ctl, api_calls, endRest>>

\* handle_restart: 'systemctl restart fan-control' stops the service, which
\* ends the process as SIGTERM does
ApiRestart ==
    /\ Running
    /\ api_pc = <<>>
    /\ api_calls < MaxApiCalls
    /\ api_calls' = api_calls + 1
    /\ main_exc' = "restart"
    /\ pc' = "killed"
    /\ UNCHANGED <<gpu_ctl, endRest>>

NextShutdown == NextLoop \/ KeyboardInterrupt \/ Terminate \/ ApiRestart

SpecShutdown == InitLoop /\ [][NextShutdown]_vars

\* C13: whenever the process shuts down (keyboard interrupt, termination,
\* service restart, or an error that leaves the tick loop) while the GPU
\* actuator has manual control active, reset() of the GPU actuator is called
\* before the process ends.  reset() is called on the way to "exited" only, so
\* a process that ended otherwise must not have held manual control.
C13_ShutdownResetsGpu ==
    pc \in {"killed", "crashed"} => ~gpu_ctl.is_manual_active

-----------------------------------------------------------------------------
(* main() of fan_control.py from its first line *)

InitStartup ==
    /\ config = LegacyConfig
    /\ logic = AutoStateManagerInit(config)
    /\ now = StartTime
    /\ sensor_values = [s \in {} |-> 0]
    /\ instant_mode = "None"
    /\ run_start = 0
    /\ raised = "None"
    /\ ret = "None"
    /\ logic_before = logic
    /\ steady_since = 0
    /\ FanIdle
    /\ GpuIdle
    /\ it8613 \in BOOLEAN
    /\ pc = "start"
    /\ LoopFields

\* main() up to its loop: it returns when the chip of the system fans was not
\* found, else it builds the controllers, starts the HTTP thread and enters
\* the loop
MainStart ==
    /\ pc = "start"
    /\ pc' = IF it8613 THEN "logic" ELSE "exited"
    /\ UNCHANGED <<now, tick, main_exc, runtime_override, sys_logic, gpu_logic,
                   sys_fans, gpu_ctl, modes, targets, current_state,
                   last_log_time, api_pc, api_calls, readVars, loopRest>>

NextStartup == MainStart \/ NextLoop

SpecStartup == InitStartup /\ [][NextStartup]_vars

\* C17: when the hardware channel of the system fan group is absent at
\* startup, only that group is disabled: the tick loop still starts, so that
\* the GPU group is evaluated and driven on every tick.
C17_MissingChannelKeepsLoop ==
    (~it8613 /\ pc # "start") => (Running \/ pc = "crashed")

====
